---- MODULE Spec2Model ----
(***************************************************************************)
(* Model of the polling / notification engine of src/bot.py:               *)
(* monitor_devices (the tasks.loop callback), fetch_devices, RateLimiter,  *)
(* send_message_with_rate_limit and the start / stop commands.             *)
(*                                                                         *)
(* Python values are modelled as follows.                                  *)
(*  - a dict is a function whose DOMAIN is the set of keys present;        *)
(*  - bool is a subclass of int in Python (True == 1, False == 0), so the  *)
(*    values of a guild's notification state are integers: 1 / 0 for the   *)
(*    per-device flag and an epoch second for the two error timestamps;    *)
(*  - a lastSeen string is the epoch second it denotes, or BadLastSeen     *)
(*    for a string that strptime rejects;                                  *)
(*  - the wall clock (datetime.now, time.time) is the variable clock.      *)
(***************************************************************************)
EXTENDS Integers, Sequences, FiniteSets, TLC

\* ------------------------------------------------------------------ bounds
MaxDevices == 2          \* longest device list an inventory response carries
Horizon == 3601          \* how far the wall clock is advanced, in seconds
MaxWriteFaults == 1      \* how many file writes fail
StartTime == 10000       \* epoch second at which the process starts

\* ------------------------------------------------------- program constants
OfflineThresholdSeconds == 360   \* timedelta(minutes=6)
SuppressionSeconds == 3600       \* error alerts: at most one per hour
MaxNotifications == 10           \* budget of one guild in one cycle
max_retries == 2                 \* fetch_devices(..., max_retries=2)
burst_limit == 5                 \* RateLimiter(burst_limit=5)
SecondsPerSend == 2              \* 1.0 / rate_limit_per_second, rate 0.5
DefaultSeconds == 60             \* @tasks.loop(seconds=60)
MinSeconds == 60                 \* set_interval refuses less
WindowSeconds == 60              \* timestamps older than this are dropped
WindowMaxLen == 100              \* deque(maxlen=100)

\* -------------------------------------------------------------- universe
GuildOrder == <<"g1", "g2">>     \* bot.guilds, in iteration order
Guilds == {GuildOrder[i] : i \in 1..Len(GuildOrder)}
Names == {"a", "b"}              \* device names the inventory may return
Ages == {OfflineThresholdSeconds, OfflineThresholdSeconds + 1}
Deltas == {SuppressionSeconds - 9, SuppressionSeconds + 1}
BadLastSeen == -1
AUTH_KEY == "last_auth_error"
API_KEY == "last_api_error"
Keys == Names \cup {AUTH_KEY, API_KEY}

\* The names bound in the module namespace of bot.py by its import
\* statements.  The name "time" is used by RateLimiter and by
\* send_message_with_rate_limit but no statement binds it.
ModuleGlobals ==
    {"os", "json", "sys", "gc", "asyncio", "aiohttp", "socket", "traceback",
     "subprocess", "logging", "atexit", "signal", "datetime", "timezone",
     "timedelta", "deque", "discord", "commands", "tasks", "functools"}

\* Evaluating time.time() raises NameError iff the name is unbound.
time_time_raises == "time" \notin ModuleGlobals

VARIABLES
    server_config,        \* guild id -> configuration dict
    config_file,          \* content of server_config.json
    notification_state,   \* guild id -> (key -> int)
    state_file,           \* content of notification_state.json
    text_channels,        \* guild -> ids of its text channels (Discord side)
    clock,                \* wall clock, epoch seconds
    faults,               \* how many file writes have failed
    running,              \* monitor_devices.is_running()
    pc,                   \* position of the tick in flight
    gi,                   \* index into GuildOrder of the guild in hand
    channel,              \* the resolved destination channel id
    now,                  \* `now` of line 383
    data,                 \* result of fetch_devices
    candidates,           \* notifications_to_send as built by lines 428-462
    notifications_to_send,\* the list after lines 464-472
    ei,                   \* index of the event being delivered
    message_timestamps,   \* RateLimiter.message_timestamps
    retry_after,          \* RateLimiter.retry_after
    ev,                   \* what the last step did (observation only)
    failed_prev,          \* guild -> events whose delivery failed last cycle
    retry_due,            \* this cycle's events whose delivery failed last cycle,
                          \* while the delivery loop runs
    retry_count,          \* fetch_devices: retry_count of the call in hand
    fetch_log,            \* fetch_devices: the GETs and sleeps of the call, in order
    loop_seconds,         \* the interval of the tasks.Loop monitor_devices
    loop_started_at,      \* when the live task of the loop was started, 0 if none
    loop_tasks            \* how many tasks of the loop are live

vars == <<server_config, config_file, notification_state, state_file,
          text_channels, clock, faults, running, pc, gi, channel,
          now, data, candidates, notifications_to_send, ei, message_timestamps,
          retry_after, ev, failed_prev, retry_due, retry_count, fetch_log,
          loop_seconds, loop_started_at, loop_tasks>>

\* ------------------------------------------------------- python helpers
\* dict.get(key, default)
Get(d, k, default) == IF k \in DOMAIN d THEN d[k] ELSE default

\* d[k] = v
Put(d, k, v) == [x \in DOMAIN d \cup {k} |-> IF x = k THEN v ELSE d[x]]

\* dict.setdefault(k, {}) on a dict of dicts: the dict afterwards
EmptyDict == [k \in {} |-> 0]

SetDefault(d, k) == IF k \in DOMAIN d THEN d ELSE Put(d, k, EmptyDict)

\* truthiness of an int / bool
Truthy(v) == v # 0

B2I(b) == IF b THEN 1 ELSE 0

InSeq(x, s) == \E i \in 1..Len(s) : s[i] = x

Min(a, b) == IF a < b THEN a ELSE b

\* a list slice s[:n]
Take(s, n) == SubSeq(s, 1, Min(n, Len(s)))

RECURSIVE Filter(_, _)
Filter(s, flag) ==
    IF s = <<>> THEN <<>>
    ELSE IF Head(s).is_offline = flag
         THEN <<Head(s)>> \o Filter(Tail(s), flag)
         ELSE Filter(Tail(s), flag)

\* ------------------------------------------------------------ files
\* open(path, "w") truncates the file before json.dump writes it.  The
\* write either completes, fails before the file is opened (content kept),
\* or fails after the truncation (content is no longer a JSON document).
WriteOutcomes == {"ok", "open_fails", "partial"}

\* the outcomes the next write may have
WriteChoices == IF faults < MaxWriteFaults THEN WriteOutcomes ELSE {"ok"}

Fault(outcome) == IF outcome = "ok" THEN 0 ELSE 1

\* a variant whose text never reaches the file
write_json_lost(file, doc, outcome) == file

write_json(file, doc, outcome) ==
    CASE outcome = "ok" -> [valid |-> TRUE, doc |-> doc]
      [] outcome = "open_fails" -> file
      [] OTHER -> [valid |-> FALSE, doc |-> EmptyDict]

\* save_config(): the exception of a failed write is caught and printed
save_config(file, conf, outcome) == write_json(file, conf, outcome)

\* ------------------------------------------------- transition detection
\* `if monitored_devices and name not in monitored_devices: continue`
\* (None and the empty list are both falsy)
skipped_by_list(monitored, name) ==
    /\ ~monitored.none
    /\ monitored.items # <<>>
    /\ ~InSeq(name, monitored.items)

\* a variant in which every lastSeen string is taken as a time
strptime_ok_always(last_seen_str) == TRUE

\* datetime.strptime(last_seen_str, "%Y-%m-%dT%H:%M:%SZ") succeeds
strptime_ok(last_seen_str) == last_seen_str # BadLastSeen

\* a variant that counts a device seen exactly the threshold ago as offline
is_offline_inclusive(now_, last_seen) ==
    (now_ - last_seen) >= OfflineThresholdSeconds

\* offline = (now - last_seen) > threshold
is_offline(now_, last_seen) == (now_ - last_seen) > OfflineThresholdSeconds

\* the device reaches line 448
evaluated(monitored, device) ==
    /\ ~skipped_by_list(monitored, device.name)
    /\ strptime_ok(device.lastSeen)

\* lines 431-462: the list notifications_to_send built from the response.
\* An event is (name, message, is_offline); the message text is left out.
RECURSIVE detect(_, _, _, _)
detect(devices, monitored, guild_state, now_) ==
    IF devices = <<>> THEN <<>>
    ELSE LET device == Head(devices)
             rest == detect(Tail(devices), monitored, guild_state, now_)
         IN IF ~evaluated(monitored, device) THEN rest
            ELSE LET offline == is_offline(now_, device.lastSeen)
                     notified == Truthy(Get(guild_state, device.name, 0))
                 IN IF offline /\ ~notified
                    THEN <<[name |-> device.name, is_offline |-> TRUE]>> \o rest
                    ELSE IF ~offline /\ notified
                    THEN <<[name |-> device.name, is_offline |-> FALSE]>> \o rest
                    ELSE rest

\* a variant that records every evaluated device as notified while the
\* events are gathered, before anything is sent
detect_state_marking(ns, g, devices, monitored) ==
    LET seen == {devices[i].name : i \in
                   {j \in 1..Len(devices) : evaluated(monitored, devices[j])}}
        gs == Get(ns, g, EmptyDict)
    IN IF seen = {} THEN ns
       ELSE Put(ns, g, [k \in DOMAIN gs \cup seen |->
                          IF k \in seen THEN 1 ELSE gs[k]])

\* notification_state after the loop of lines 431-462: line 448 creates the
\* guild's dict as soon as one device is evaluated; no device key is written
detect_state(ns, g, devices, monitored) ==
    IF \E i \in 1..Len(devices) : evaluated(monitored, devices[i])
    THEN SetDefault(ns, g)
    ELSE ns

\* a variant that records every delivered event as a went-offline one
record_event_as_notified(guild_state, e) == Put(guild_state, e.name, 1)

\* lines 483-485, after the send of event e has returned:
\* guild_state[name] = is_offline
record_event(guild_state, e) == Put(guild_state, e.name, B2I(e.is_offline))

\* a variant that keeps the first MaxNotifications events whatever their kind
prioritize_truncating(nts) == Take(nts, MaxNotifications)

\* lines 464-472
prioritize(nts) ==
    IF Len(nts) > MaxNotifications
    THEN LET offline_notifications == Filter(nts, TRUE)
             online_notifications == Filter(nts, FALSE)
             room == MaxNotifications - Len(offline_notifications)
         IN offline_notifications
              \o Take(online_notifications, IF room > 0 THEN room ELSE 0)
    ELSE nts

\* ------------------------------------------------------------ RateLimiter
Max(a, b) == IF a > b THEN a ELSE b

\* lines 64-65: while timestamps and timestamps[0] < now - 60: popleft()
RECURSIVE drop_old(_, _)
drop_old(ts, t) ==
    IF ts # <<>> /\ Head(ts) < t - WindowSeconds THEN drop_old(Tail(ts), t)
    ELSE ts

\* deque(maxlen=100).append
deque_append(ts, x) ==
    IF Len(ts) >= WindowMaxLen THEN Append(Tail(ts), x) ELSE Append(ts, x)

\* RateLimiter.acquire called at time t: whether it raised, the send window
\* afterwards and the time at which it returns.  Line 54 evaluates
\* time.time() before anything else.
acquire(ts, ra, t) ==
    IF time_time_raises THEN [raised |-> TRUE, ts |-> ts, t |-> t]
    ELSE IF ra > t THEN [raised |-> FALSE, ts |-> ts, t |-> ra]
    ELSE LET kept == drop_old(ts, t)
             wait_time ==
                 IF Len(kept) >= burst_limit
                 THEN Max(0, SecondsPerSend
                               - (t - kept[Len(kept) - burst_limit + 1]))
                 ELSE 0
         IN [raised |-> FALSE,
             ts |-> deque_append(kept, t + wait_time),
             t |-> t + wait_time]

\* a header of the response: not sent, sent with a text that is no number,
\* or sent with a number of seconds (a count for X-RateLimit-Remaining)
HeaderAbsent == -1
HeaderMalformed == -2
Present(v) == v # HeaderAbsent

\* RateLimiter.update_from_response (lines 79-104) at time t, for the
\* headers h = [retry_after, remaining, reset_after]: whether it raised and
\* what, the deadline afterwards and the value returned.  float() and int()
\* raise ValueError on a text that is no number.
update_from_response(ra, t, h) ==
    LET raise(e) == [raised |-> TRUE, error |-> e, ra |-> ra, result |-> FALSE]
        limited(seconds) ==
            IF time_time_raises THEN raise("NameError")
            ELSE [raised |-> FALSE, error |-> "", ra |-> t + seconds,
                  result |-> TRUE]
    IN IF Present(h.retry_after)
       THEN IF h.retry_after = HeaderMalformed THEN raise("ValueError")
            ELSE limited(h.retry_after)
       ELSE IF Present(h.remaining) /\ Present(h.reset_after)
       THEN IF HeaderMalformed \in {h.remaining, h.reset_after}
            THEN raise("ValueError")
            ELSE IF h.remaining = 0 THEN limited(h.reset_after)
            ELSE [raised |-> FALSE, error |-> "", ra |-> ra,
                  result |-> FALSE]
       ELSE [raised |-> FALSE, error |-> "", ra |-> ra, result |-> FALSE]

\* what channel.send does: it returns a message, raises HTTPException with
\* status 429 (and the retried send then succeeds or raises), or raises
\* another exception
SendOutcomes == {"ok", "429_then_ok", "429_then_error", "error"}
RetryAfterSeconds == 5

\* send_message_with_rate_limit (lines 934-959): raised, whether a message
\* reached the channel, and the limiter and the clock afterwards
send_message_with_rate_limit(ts, ra, t, outcome) ==
    LET a == acquire(ts, ra, t)
    IN IF a.raised
       THEN [raised |-> TRUE, delivered |-> FALSE, ts |-> ts, ra |-> ra, t |-> t]
       ELSE CASE outcome = "ok" ->
                   [raised |-> FALSE, delivered |-> TRUE,
                    ts |-> a.ts, ra |-> ra, t |-> a.t]
              [] outcome = "429_then_ok" ->
                   [raised |-> FALSE, delivered |-> TRUE, ts |-> a.ts,
                    ra |-> a.t + RetryAfterSeconds,
                    t |-> a.t + RetryAfterSeconds]
              [] outcome = "429_then_error" ->
                   [raised |-> TRUE, delivered |-> FALSE, ts |-> a.ts,
                    ra |-> a.t + RetryAfterSeconds,
                    t |-> a.t + RetryAfterSeconds]
              [] OTHER ->
                   [raised |-> TRUE, delivered |-> FALSE,
                    ts |-> a.ts, ra |-> ra, t |-> a.t]

\* ------------------------------------------------------- the poll loop
\* a variant in which an exception that escapes the body ends the loop
on_tick_exception_stops(is_running) == FALSE

\* lines 500-505: the handler around the whole body of monitor_devices logs
\* the exception and returns, so tasks.loop sees a normal return and keeps
\* the loop scheduled
on_tick_exception(is_running) == is_running

\* op: what the step did; g, name: the guild and the device, the alert key
\* or the kind of fetch result it concerned;
\* rest: the events of the batch that were left unattempted
Ev(op, g, name) == [op |-> op, g |-> g, name |-> name, rest |-> 0]
EvRest(op, g, name, rest) == [op |-> op, g |-> g, name |-> name, rest |-> rest]

NoData == [kind |-> "pending", devices |-> <<>>, status |-> 0]

\* the steps at which the tick is suspended at an await that lets command
\* handlers and the clock run
Suspended == pc \in {"idle", "fetch"}

commandVars == <<server_config, config_file, running>>
fileVars == <<config_file, state_file>>
limiterVars == <<message_timestamps, retry_after>>
ghostVars == <<failed_prev, retry_due>>
fetchVars == <<retry_count, fetch_log>>
loopVars == <<loop_seconds, loop_started_at, loop_tasks>>
tickVars == <<gi, channel, now, data, candidates, notifications_to_send, ei>>

\* the locals of one guild's cycle are dead once the cycle is left
ClearCycle ==
    /\ channel' = 0
    /\ now' = 0
    /\ data' = NoData
    /\ candidates' = <<>>
    /\ notifications_to_send' = <<>>
    /\ ei' = 0

\* `continue`, or the end of the body of the for loop of line 345
next_guild(op, g, name) ==
    /\ pc' = "guild"
    /\ gi' = gi + 1
    /\ ev' = Ev(op, g, name)
    /\ ClearCycle

\* the tick ends in the handler of lines 500-505
tick_raises(op, g, name, rest) ==
    /\ pc' = "idle"
    /\ gi' = 0
    /\ running' = on_tick_exception(running)
    /\ ev' = EvRest(op, g, name, rest)
    /\ ClearCycle

\* tasks.loop fires the callback (line 336); the session is created
loop_tick ==
    /\ running
    /\ pc = "idle"
    /\ pc' = "guild"
    /\ gi' = 1
    /\ ev' = Ev("tick", "", "")
    /\ UNCHANGED <<server_config, fileVars, faults, notification_state,
                   text_channels, fetchVars, loopVars, clock, running, channel, now, data,
                   candidates, notifications_to_send, ei, limiterVars,
                   ghostVars>>

\* a variant that polls a guild whether or not its monitoring is stopped
skip_stopped_never(guild_conf) == FALSE

\* lines 379-381: guild_conf.get("monitoring_stopped", False)
skip_stopped(guild_conf) == guild_conf.monitoring_stopped

\* lines 345-384: pick the next guild, resolve its channel, start the fetch
guild_begin ==
    /\ pc = "guild"
    /\ IF gi > Len(GuildOrder)
       THEN /\ pc' = "idle"
            /\ gi' = 0
            /\ ev' = Ev("tick_done", "", "")
            /\ ClearCycle
            /\ UNCHANGED <<server_config, config_file, faults>>
       ELSE LET g == GuildOrder[gi]
            IN IF g \notin DOMAIN server_config
               THEN /\ next_guild("skip_unconfigured", g, "")
                    /\ UNCHANGED <<server_config, config_file, faults>>
               ELSE LET guild_conf == server_config[g]
                        cid == guild_conf.notification_channel_id
                        found == cid # 0 /\ InSeq(cid, text_channels[g])
                    IN IF ~found /\ text_channels[g] = <<>>
                       THEN /\ next_guild("skip_no_channel", g, "")
                            /\ UNCHANGED <<server_config, config_file, faults>>
                       ELSE \E w \in WriteChoices :
                            LET ch == IF found THEN cid ELSE text_channels[g][1]
                                conf2 == IF found THEN server_config
                                         ELSE [server_config EXCEPT
                                               ![g].notification_channel_id = ch]
                            IN /\ server_config' = conf2
                               /\ config_file' =
                                    IF found THEN config_file
                                    ELSE save_config(config_file, conf2, w)
                               /\ faults' =
                                    IF found THEN faults ELSE faults + Fault(w)
                               /\ IF skip_stopped(guild_conf)
                                  THEN next_guild("skip_stopped", g, "")
                                  ELSE /\ pc' = "fetch"
                                       /\ gi' = gi
                                       /\ channel' = ch
                                       /\ now' = clock
                                       /\ ev' = Ev("begin_fetch", g, "")
                                       /\ UNCHANGED <<data, ei, candidates,
                                                      notifications_to_send>>
    /\ UNCHANGED <<notification_state, state_file, text_channels, fetchVars, loopVars, clock,
                   running, limiterVars, ghostVars>>

\* ------------------------------------------------------------ fetch_devices
SeqsUpTo(S, n) == UNION {[1..k -> S] : k \in 0..n}

\* what one GET may end in: a status, a timeout, a connection error
AttemptOutcomes == {"200", "401", "403", "500", "timeout", "connect_error"}

\* a variant that returns on 200 only and retries an authentication error
attempt_returns_on_200_only(o) == o = "200"

\* lines 307-312: the statuses on which a pass of the loop returns
attempt_returns(o) == o \in {"200", "401", "403"}

\* a variant that goes on to sleep after the last pass as well
may_retry_inclusive(retry_count_) == retry_count_ <= max_retries

\* line 327: a failed pass is followed by another one
may_retry(retry_count_) == retry_count_ < max_retries

\* the while loop of lines 292-331 from its pass number retry_count + 1 on:
\* outs[i] is what the i-th GET ends in.  The result names the pass that
\* returned and the number of one-second sleeps made.
RECURSIVE fetch_loop(_, _, _)
fetch_loop(outs, retry_count_, sleeps) ==
    LET o == outs[retry_count_ + 1]
    IN CASE o = "200" ->
              [kind |-> "devices", status |-> 200,
               attempts |-> retry_count_ + 1, sleeps |-> sleeps]
         [] o \in {"401", "403"} ->
              [kind |-> "auth_error", status |-> IF o = "401" THEN 401 ELSE 403,
               attempts |-> retry_count_ + 1, sleeps |-> sleeps]
         [] OTHER ->
              IF may_retry(retry_count_)
              THEN fetch_loop(outs, retry_count_ + 1, sleeps + 1)
              ELSE [kind |-> "none", status |-> 0,
                    attempts |-> retry_count_ + 1, sleeps |-> sleeps]

\* fetch_devices(api_key, session) (lines 288-333)
fetch_devices(outs) == fetch_loop(outs, 0, 0)

\* every result fetch_devices can return, over all the ways its GETs can end
FetchResults ==
    {fetch_devices(outs) : outs \in [1..(max_retries + 1) -> AttemptOutcomes]}

\* the lastSeen strings the inventory may report for a device at time t
LastSeenChoices(n, t) ==
    IF n = "a" THEN {t - a : a \in Ages}
    ELSE {t - (OfflineThresholdSeconds + 1), BadLastSeen}

\* the device entries an inventory response may carry at time t
DeviceEntries(t) ==
    UNION {{[name |-> n, lastSeen |-> ls] : ls \in LastSeenChoices(n, t)} :
             n \in Names}

RangeOf(s) == {s[i] : i \in 1..Len(s)}

\* lines 386-403 and 404-424: the operator alert of a failed fetch, with
\* its suppression window kept under `key`
error_alert(g, key) ==
    LET ns1 == SetDefault(notification_state, g)
        guild_state == ns1[g]
        last_error == Get(guild_state, key, 0)
        current_time == clock
        alert(o, w) ==
            LET r == send_message_with_rate_limit(message_timestamps,
                                                  retry_after, clock, o)
            IN /\ message_timestamps' = r.ts
               /\ retry_after' = r.ra
               /\ clock' = r.t
               /\ IF r.raised
                  THEN /\ notification_state' = ns1
                       /\ tick_raises("alert_raised", g, key, 0)
                       /\ UNCHANGED <<state_file, faults>>
                  ELSE LET ns2 == [ns1 EXCEPT ![g] = Put(guild_state, key,
                                                         current_time)]
                       IN /\ notification_state' = ns2
                          /\ state_file' = write_json(state_file, ns2, w)
                          /\ faults' = faults + Fault(w)
                          /\ next_guild("alert_sent", g, key)
                          /\ UNCHANGED running
    IN IF current_time - last_error > SuppressionSeconds
       THEN \* whatever channel.send would do, nothing is sent when acquire
            \* raises first
            IF acquire(message_timestamps, retry_after, clock).raised
            THEN alert("ok", "ok")
            ELSE \E o \in SendOutcomes, w \in WriteChoices : alert(o, w)
       ELSE /\ notification_state' = ns1
            /\ next_guild("alert_suppressed", g, key)
            /\ UNCHANGED <<state_file, faults, limiterVars, clock, running>>

\* a variant that takes no result for an authentication error
is_auth_error_never(got) == FALSE

\* line 386: isinstance(data, dict) and data.get("_auth_error")
is_auth_error(got) == got.kind = "auth_error"

\* lines 384-472: fetch_devices returns and monitor_devices runs on, without
\* an await in between, to the alert of a failed fetch or through detection
\* and prioritization to the delivery loop
fetch_return ==
    /\ pc = "fetch"
    /\ LET g == GuildOrder[gi]
       IN \E kind \in {r.kind : r \in FetchResults} :
          LET got == CHOOSE r \in FetchResults : r.kind = kind
          IN CASE is_auth_error(got) ->
                    /\ error_alert(g, AUTH_KEY)
                    /\ UNCHANGED <<failed_prev, retry_due>>
               [] got.kind = "none" ->
                    /\ error_alert(g, API_KEY)
                    /\ UNCHANGED <<failed_prev, retry_due>>
               [] OTHER ->
                    LET monitored == server_config[g].devices
                        guild_state == Get(notification_state, g, EmptyDict)
                        \* what lines 426-472 make of each possible response
                        outcomes ==
                            {[found |-> detect(ds, monitored, guild_state, now),
                              ns |-> detect_state(notification_state, g, ds,
                                                  monitored)] :
                               ds \in IF got.kind = "devices"
                                      THEN SeqsUpTo(DeviceEntries(clock),
                                                    MaxDevices)
                                      ELSE \* data.get("devices", [])
                                           {<<>>}}
                    IN \E r \in outcomes :
                       /\ candidates' = r.found
                       /\ notifications_to_send' = prioritize(r.found)
                       /\ ei' = 1
                       /\ notification_state' = r.ns
                       /\ retry_due' = failed_prev[g] \cap RangeOf(r.found)
                       /\ failed_prev' = [failed_prev EXCEPT ![g] = {}]
                       /\ pc' = "deliver"
                       /\ ev' = Ev("detected", g, got.kind)
                       /\ UNCHANGED <<state_file, faults, gi, limiterVars,
                                      clock, running, channel, now, data>>
    /\ UNCHANGED <<server_config, config_file, text_channels, fetchVars, loopVars>>

\* lines 475-492: one pass of the delivery loop.  acquire() of line 477 is
\* outside the try of line 479; the send of line 481 is inside it.  The
\* 0.5s pause of line 489 is shorter than one unit of the clock.
deliver_event ==
    /\ pc = "deliver"
    /\ LET g == GuildOrder[gi]
           n == Len(notifications_to_send)
       IN IF ei > n
          THEN /\ pc' = "persist"
               /\ ev' = Ev("deliver_done", g, "")
               /\ retry_due' = {}
               /\ UNCHANGED <<notification_state, limiterVars, clock, running,
                              failed_prev, gi, channel, now, data,
                              candidates, notifications_to_send, ei>>
          ELSE LET e == notifications_to_send[ei]
                   a == acquire(message_timestamps, retry_after, clock)
               IN IF a.raised
                  THEN /\ tick_raises("acquire_raised", g, e.name, n - ei)
                       /\ failed_prev' =
                            [failed_prev EXCEPT ![g] = @ \cup {e}]
                       /\ retry_due' = {}
                       /\ UNCHANGED <<notification_state, limiterVars, clock>>
                  ELSE \E o \in SendOutcomes :
                       LET r == send_message_with_rate_limit(a.ts, retry_after,
                                                             a.t, o)
                           ns1 == SetDefault(notification_state, g)
                       IN /\ message_timestamps' = r.ts
                          /\ retry_after' = r.ra
                          /\ clock' = r.t
                          /\ notification_state' =
                               IF r.raised THEN notification_state
                               ELSE [ns1 EXCEPT ![g] = record_event(ns1[g], e)]
                          /\ failed_prev' =
                               IF r.raised
                               THEN [failed_prev EXCEPT ![g] = @ \cup {e}]
                               ELSE failed_prev
                          /\ ei' = ei + 1
                          /\ ev' = Ev(IF r.raised THEN "send_failed"
                                      ELSE "delivered", g, e.name)
                          /\ UNCHANGED <<pc, running, gi, channel, now, data,
                                         candidates, notifications_to_send,
                                         retry_due>>
    /\ UNCHANGED <<server_config, fileVars, faults, text_channels, fetchVars, loopVars>>

\* lines 494-499: the state file is rewritten at the end of the guild's cycle
persist_state ==
    /\ pc = "persist"
    /\ \E w \in WriteChoices :
          /\ state_file' = write_json(state_file, notification_state, w)
          /\ faults' = faults + Fault(w)
          /\ next_guild(IF w = "ok" THEN "persisted" ELSE "persist_failed",
                        GuildOrder[gi], "")
    /\ UNCHANGED <<server_config, config_file, notification_state,
                   text_channels, fetchVars, loopVars, clock, running, limiterVars,
                   ghostVars>>

\* ------------------------------------------------------------ commands
\* a variant that launches the loop whether or not it is running
start_always(is_running) == TRUE

\* lines 571, 585 and 973: monitor_devices.start() is called only when the
\* loop is not running
start_needed(is_running) == ~is_running

\* monitor_devices.start(): a task is created for the loop, whose first
\* tick is due at once; the interval is the one the loop has
Loop_start ==
    /\ running' = TRUE
    /\ loop_tasks' = loop_tasks + 1
    /\ loop_started_at' = clock

\* !start (lines 962-977), issued in guild g
start_monitoring(g) ==
    /\ Suspended
    /\ IF g \notin DOMAIN server_config
       THEN /\ ev' = Ev("start_refused", g, "")
            /\ UNCHANGED <<server_config, config_file, faults, running,
                           loop_tasks, loop_started_at>>
       ELSE \E w \in WriteChoices :
            LET conf2 == [server_config EXCEPT ![g].monitoring_stopped = FALSE]
            IN /\ server_config' = conf2
               /\ config_file' = save_config(config_file, conf2, w)
               /\ faults' = faults + Fault(w)
               /\ IF start_needed(running)
                  THEN /\ Loop_start
                       /\ ev' = Ev("start", g, "")
                  ELSE /\ ev' = Ev("start_noop", g, "")
                       /\ UNCHANGED <<running, loop_tasks, loop_started_at>>
    /\ UNCHANGED <<notification_state, state_file, text_channels, fetchVars,
                   loop_seconds, clock, pc, tickVars, limiterVars, ghostVars>>

\* monitor_devices.cancel() and what follows from it once the event loop
\* has run the cancelled task: the tick in flight, suspended at an await,
\* ends there with CancelledError, and the loop has no live task
Loop_cancel ==
    /\ running' = FALSE
    /\ loop_tasks' = 0
    /\ loop_started_at' = 0
    /\ pc' = "idle"
    /\ gi' = 0
    /\ ClearCycle

\* !stop (lines 979-990), issued in guild g.  Loop.cancel() cancels the
\* task of the loop: the tick in flight is suspended at an await, where
\* CancelledError is raised; `except Exception` does not catch it.
stop_monitoring(g) ==
    /\ Suspended
    /\ \E w \in WriteChoices :
       LET conf2 == IF g \in DOMAIN server_config
                    THEN [server_config EXCEPT ![g].monitoring_stopped = TRUE]
                    ELSE server_config
       IN /\ server_config' = conf2
          /\ config_file' = IF g \in DOMAIN server_config
                            THEN save_config(config_file, conf2, w)
                            ELSE config_file
          /\ faults' = IF g \in DOMAIN server_config
                       THEN faults + Fault(w) ELSE faults
    /\ IF running
       THEN /\ Loop_cancel
            /\ ev' = Ev("stop", g, "")
       ELSE /\ ev' = Ev("stop_noop", g, "")
            /\ UNCHANGED <<running, pc, tickVars, loop_tasks,
                           loop_started_at>>
    /\ UNCHANGED <<notification_state, state_file, text_channels, fetchVars,
                   loop_seconds, clock, limiterVars, ghostVars>>

\* the order in which server_config holds its keys: that of the file it
\* was loaded from (lines 123-128); a dict keeps a key in its place when
\* the value is replaced, and appends a new key
ConfigOrder == GuildOrder

RECURSIVE first_key(_, _)
first_key(conf, order) ==
    IF Head(order) \in DOMAIN conf THEN Head(order)
    ELSE first_key(conf, Tail(order))

last_guild(conf) ==
    conf[first_key(conf, [i \in 1..Len(ConfigOrder) |->
                             ConfigOrder[Len(ConfigOrder) + 1 - i]])]

\* line 594: next(iter(server_config.values())), of a non-empty dict
first_guild(conf) == conf[first_key(conf, ConfigOrder)]

\* on_ready (lines 577-613), fired when the gateway session is ready and
\* again after every reconnect: the loop is started if some configured
\* guild is not marked as stopped
on_ready ==
    /\ Suspended
    /\ LET should_start ==
               /\ start_needed(running)
               /\ \E g \in DOMAIN server_config :
                     ~server_config[g].monitoring_stopped
       IN IF should_start
          THEN \* lines 593-596: the interval of the first guild of
               \* server_config becomes the interval of the loop
               /\ loop_seconds' = first_guild(server_config).poll_interval
               /\ Loop_start
               /\ ev' = Ev("ready_start", "", "")
          ELSE /\ ev' = Ev("ready", "", "")
               /\ UNCHANGED <<running, loopVars>>
    /\ UNCHANGED <<server_config, fileVars, faults, notification_state,
                   text_channels, fetchVars, clock, pc, tickVars, limiterVars,
                   ghostVars>>

\* Task.cancel() only requests the cancellation: the cancelled task is done
\* once the event loop has run it, which it cannot do before the handler
\* that called cancel() reaches its next await (line 1013)
cancelled_task_done == FALSE

\* Loop.start() raises RuntimeError when the loop has a task that is not done
Loop_start_raises(task_done) == ~task_done

\* lines 1010-1012: cancel(), change_interval(seconds=seconds), start()
restart_loop(seconds) ==
    /\ loop_seconds' = seconds
    /\ pc' = "idle"
    /\ gi' = 0
    /\ ClearCycle
    /\ IF Loop_start_raises(cancelled_task_done)
       THEN \* the handler ends with the exception; the cancelled task ends
            /\ running' = FALSE
            /\ loop_tasks' = 0
            /\ loop_started_at' = 0
       ELSE /\ running' = TRUE
            /\ loop_tasks' = 1
            /\ loop_started_at' = clock

\* !interval <seconds> (lines 992-1015), issued in guild g; ev.rest keeps
\* the argument
set_interval(g, seconds) ==
    /\ Suspended
    /\ IF g \notin DOMAIN server_config \/ seconds < MinSeconds
       THEN /\ ev' = EvRest("interval_refused", g, "", seconds)
            /\ UNCHANGED <<server_config, config_file, faults, running, pc,
                           tickVars, loopVars>>
       ELSE \E w \in WriteChoices :
            LET conf2 == [server_config EXCEPT ![g].poll_interval = seconds]
                was_running == running
            IN /\ server_config' = conf2
               /\ config_file' = save_config(config_file, conf2, w)
               /\ faults' = faults + Fault(w)
               /\ IF was_running
                  THEN /\ restart_loop(seconds)
                       /\ ev' = EvRest(IF Loop_start_raises(cancelled_task_done)
                                       THEN "interval_restart_raised"
                                       ELSE "interval_restarted",
                                       g, "", seconds)
                  ELSE /\ ev' = EvRest("interval_saved", g, "", seconds)
                       /\ UNCHANGED <<running, pc, tickVars, loopVars>>
    /\ UNCHANGED <<notification_state, state_file, text_channels, fetchVars,
                   clock, limiterVars, ghostVars>>

\* the values fetch_devices may return to the test request of !setup
TestResults == {r.kind : r \in FetchResults}

\* lines 537-539: the key is refused when the test request returned None
setup_refuses(test_result) == test_result = "none"

\* !setup <api_key> [poll_interval] (lines 507-575), issued in guild g in
\* its channel 1 without a device list; test_result is the kind of value
\* the test request of line 536 returned, kept in ev.name
setup(g, poll_interval, test_result) ==
    /\ Suspended
    /\ IF setup_refuses(test_result)
       THEN /\ ev' = EvRest("setup_refused", g, test_result, poll_interval)
            /\ UNCHANGED <<server_config, config_file, faults, running,
                           loop_tasks, loop_started_at>>
       ELSE \E w1, w2 \in WriteChoices :
            LET conf2 == Put(server_config, g,
                             [devices |-> [none |-> TRUE, items |-> <<>>],
                              notification_channel_id |-> 1,
                              monitoring_stopped |-> FALSE,
                              poll_interval |-> poll_interval])
            IN /\ faults + Fault(w1) + Fault(w2) <= MaxWriteFaults
               /\ server_config' = conf2
               /\ config_file' =
                    save_config(save_config(config_file, conf2, w1), conf2, w2)
               /\ faults' = faults + Fault(w1) + Fault(w2)
               /\ IF start_needed(running)
                  THEN /\ Loop_start
                       /\ ev' = EvRest("setup_start", g, test_result,
                                       poll_interval)
                  ELSE /\ ev' = EvRest("setup_noop", g, test_result,
                                       poll_interval)
                       /\ UNCHANGED <<running, loop_tasks, loop_started_at>>
    /\ UNCHANGED <<notification_state, state_file, text_channels, fetchVars,
                   loop_seconds, clock, pc, tickVars, limiterVars, ghostVars>>

\* time passes while the tick is suspended or no tick is in flight
Advance ==
    /\ Suspended
    /\ \E d \in Deltas :
          /\ clock + d <= StartTime + Horizon
          /\ clock' = clock + d
    /\ ev' = Ev("advance", "", "")
    /\ UNCHANGED <<server_config, fileVars, faults, notification_state, text_channels, fetchVars, loopVars,
                   running, pc, tickVars, limiterVars, ghostVars>>

\* ------------------------------------------------------------ start-up
Conf(devs, cid, stopped) ==
    [devices |-> devs, notification_channel_id |-> cid,
     monitoring_stopped |-> stopped, poll_interval |-> 60]

AllDevices == [none |-> TRUE, items |-> <<>>]
Only(items) == [none |-> FALSE, items |-> items]

Dict1(k1, v1) == Put(EmptyDict, k1, v1)
Dict2(k1, v1, k2, v2) == Put(Dict1(k1, v1), k2, v2)
Dict3(k1, v1, k2, v2, k3, v3) == Put(Dict2(k1, v1, k2, v2), k3, v3)

\* contents of server_config.json found at start-up (lines 123-128)
InitConfigs ==
    { Dict2("g1", Conf(AllDevices, 1, FALSE),
            "g2", Conf(Only(<<"a">>), 1, FALSE)),
      Dict2("g1", Conf(Only(<<>>), 2, FALSE),
            "g2", Conf(AllDevices, 0, TRUE)),
      Dict1("g1", Conf(AllDevices, 0, FALSE)) }

\* contents of notification_state.json found at start-up (lines 108-113)
InitStates ==
    { EmptyDict,
      Dict2("g1", Dict2("a", 1, "b", 0),
            "g2", Dict1("a", 1)),
      Dict2("g1", Dict3("a", 0, "b", 1, AUTH_KEY, StartTime - 10),
            "g2", Dict2(AUTH_KEY, StartTime - SuppressionSeconds,
                        API_KEY, StartTime - SuppressionSeconds - 1)) }

\* the text channels of the guilds, as Discord reports them: a guild
\* configured without a channel has none
InitChannels(conf) ==
    [g \in Guilds |->
        IF g \in DOMAIN conf /\ conf[g].notification_channel_id = 0
              /\ conf[g].monitoring_stopped
        THEN <<>> ELSE <<1>>]

Init ==
    /\ server_config \in InitConfigs
    /\ config_file = [valid |-> TRUE, doc |-> server_config]
    /\ notification_state \in InitStates
    /\ state_file = [valid |-> TRUE, doc |-> notification_state]
    /\ text_channels = InitChannels(server_config)
    /\ clock = StartTime
    /\ faults = 0
    /\ running = FALSE
    /\ pc = "idle"
    /\ gi = 0
    /\ channel = 0
    /\ now = 0
    /\ data = NoData
    /\ candidates = <<>>
    /\ notifications_to_send = <<>>
    /\ ei = 0
    /\ message_timestamps = <<>>
    /\ retry_after = 0
    /\ ev = Ev("init", "", "")
    /\ failed_prev = [g \in Guilds |-> {}]
    /\ retry_due = {}
    /\ retry_count = 0
    /\ fetch_log = <<>>
    /\ loop_seconds = DefaultSeconds
    /\ loop_started_at = (IF running THEN StartTime ELSE 0)
    /\ loop_tasks = B2I(running)

Next ==
    \/ loop_tick
    \/ guild_begin
    \/ fetch_return
    \/ deliver_event
    \/ persist_state
    \/ \E g \in Guilds : start_monitoring(g)
    \/ \E g \in Guilds : stop_monitoring(g)
    \/ on_ready
    \/ Advance

Spec == Init /\ [][Next]_vars

\* ------------------------------------------------------------------------
\* The loop under all of its commands: the steps of Spec together with
\* !interval and !setup (issued again in a configured guild), from one
\* configuration and with every write of a file succeeding.
Intervals == {MinSeconds - 1, MinSeconds, 2 * MinSeconds}

\* the intervals given to !setup: the default and one below the minimum
\* of !interval
SetupIntervals == {DefaultSeconds, MinSeconds - 1}

InitLoop ==
    /\ server_config = Dict1("g1", Conf(AllDevices, 1, FALSE))
    /\ config_file = [valid |-> TRUE, doc |-> server_config]
    /\ notification_state = EmptyDict
    /\ state_file = [valid |-> TRUE, doc |-> notification_state]
    /\ text_channels = InitChannels(server_config)
    /\ clock = StartTime
    /\ faults = MaxWriteFaults
    /\ running = FALSE
    /\ pc = "idle"
    /\ gi = 0
    /\ channel = 0
    /\ now = 0
    /\ data = NoData
    /\ candidates = <<>>
    /\ notifications_to_send = <<>>
    /\ ei = 0
    /\ message_timestamps = <<>>
    /\ retry_after = 0
    /\ ev = Ev("init", "", "")
    /\ failed_prev = [g \in Guilds |-> {}]
    /\ retry_due = {}
    /\ retry_count = 0
    /\ fetch_log = <<>>
    /\ loop_seconds = DefaultSeconds
    /\ loop_started_at = 0
    /\ loop_tasks = 0

NextLoop ==
    \/ Next
    \/ \E g \in Guilds, seconds \in Intervals : set_interval(g, seconds)
    \/ \E g \in DOMAIN server_config, poll_interval \in SetupIntervals,
          test_result \in TestResults :
          setup(g, poll_interval, test_result)

SpecLoop == InitLoop /\ [][NextLoop]_vars

\* ------------------------------------------------------------------------
\* The ready event over every stored configuration of two guilds: the
\* commands that start and stop the loop, from configurations whose guilds
\* differ in their intervals and in their stopped flags.
ReadyConfigs ==
    LET confs == {[Conf(AllDevices, 1, stopped) EXCEPT !.poll_interval = s] :
                    s \in {MinSeconds, 2 * MinSeconds}, stopped \in BOOLEAN}
    IN {EmptyDict}
         \cup {Dict1(g, c) : g \in Guilds, c \in confs}
         \cup {Dict2("g1", c1, "g2", c2) : c1 \in confs, c2 \in confs}

InitReady ==
    /\ server_config \in ReadyConfigs
    /\ config_file = [valid |-> TRUE, doc |-> server_config]
    /\ notification_state = EmptyDict
    /\ state_file = [valid |-> TRUE, doc |-> notification_state]
    /\ text_channels = InitChannels(server_config)
    /\ clock = StartTime
    /\ faults = MaxWriteFaults
    /\ running = FALSE
    /\ pc = "idle"
    /\ gi = 0
    /\ channel = 0
    /\ now = 0
    /\ data = NoData
    /\ candidates = <<>>
    /\ notifications_to_send = <<>>
    /\ ei = 0
    /\ message_timestamps = <<>>
    /\ retry_after = 0
    /\ ev = Ev("init", "", "")
    /\ failed_prev = [g \in Guilds |-> {}]
    /\ retry_due = {}
    /\ retry_count = 0
    /\ fetch_log = <<>>
    /\ loop_seconds = DefaultSeconds
    /\ loop_started_at = 0
    /\ loop_tasks = 0

NextReady ==
    \/ on_ready
    \/ \E g \in Guilds : start_monitoring(g)
    \/ \E g \in Guilds : stop_monitoring(g)

SpecReady == InitReady /\ [][NextReady]_vars

\* ------------------------------------------------------------------------
\* The transition detection of lines 431-462 on its own: every response,
\* allow-list and stored state of one guild, within the bounds.
DetectGuild == "g1"

DetectAges == {0, OfflineThresholdSeconds, OfflineThresholdSeconds + 1, 600}

DetectEntries(t) ==
    {[name |-> n, lastSeen |-> ls] :
        n \in Names, ls \in {t - a : a \in DetectAges} \cup {BadLastSeen}}

AllowLists == {AllDevices, Only(<<>>), Only(<<"a">>), Only(<<"b", "a">>)}

\* the dicts a guild's state can be: a flag for some of the devices
GuildStates ==
    UNION {[D -> {0, 1}] : D \in SUBSET Names}

InitDetect ==
    /\ \E m \in AllowLists :
          server_config = Dict1(DetectGuild, Conf(m, 1, FALSE))
    /\ config_file = [valid |-> TRUE, doc |-> server_config]
    /\ notification_state \in
          {EmptyDict} \cup {Dict1(DetectGuild, gs) : gs \in GuildStates}
    /\ state_file = [valid |-> TRUE, doc |-> notification_state]
    /\ text_channels = [g \in Guilds |-> <<1>>]
    /\ clock = StartTime
    /\ faults = 0
    /\ running = TRUE
    /\ pc = "detect"
    /\ gi = 1
    /\ channel = 1
    /\ now = StartTime
    /\ \E ds \in SeqsUpTo(DetectEntries(StartTime), MaxDevices) :
          data = [kind |-> "devices", devices |-> ds, status |-> 200]
    /\ candidates = <<>>
    /\ notifications_to_send = <<>>
    /\ ei = 0
    /\ message_timestamps = <<>>
    /\ retry_after = 0
    /\ ev = Ev("init", "", "")
    /\ failed_prev = [g \in Guilds |-> {}]
    /\ retry_due = {}
    /\ retry_count = 0
    /\ fetch_log = <<>>
    /\ loop_seconds = DefaultSeconds
    /\ loop_started_at = (IF running THEN StartTime ELSE 0)
    /\ loop_tasks = B2I(running)

\* lines 426-462 applied to the response in hand
run_detect ==
    /\ pc = "detect"
    /\ LET monitored == server_config[DetectGuild].devices
           guild_state == Get(notification_state, DetectGuild, EmptyDict)
       IN /\ candidates' = detect(data.devices, monitored, guild_state, now)
          /\ notification_state' =
               detect_state(notification_state, DetectGuild, data.devices,
                            monitored)
    /\ pc' = "detected"
    /\ ev' = Ev("detected", DetectGuild, "")
    /\ UNCHANGED <<server_config, fileVars, faults, text_channels, fetchVars, loopVars, clock,
                   running, gi, channel, now, data, notifications_to_send, ei,
                   limiterVars, ghostVars>>

NextDetect == run_detect

SpecDetect == InitDetect /\ [][NextDetect]_vars

\* ------------------------------------------------------------------------
\* Detection run a second time on the same response at the same time, once
\* every event of the first run has been sent and recorded.  Device names
\* are unique in an inventory response.
DistinctNames(devices) ==
    \A i, j \in 1..Len(devices) : devices[i].name = devices[j].name => i = j

InitRerun ==
    /\ InitDetect
    /\ DistinctNames(data.devices)

\* lines 475-492 with every send returning: each event of the list is
\* recorded in turn (lines 483-485); the list is kept in
\* notifications_to_send
RECURSIVE record_all(_, _)
record_all(guild_state, events) ==
    IF events = <<>> THEN guild_state
    ELSE record_all(record_event(guild_state, Head(events)), Tail(events))

record_delivered ==
    /\ pc = "detected"
    /\ notifications_to_send' = candidates
    /\ notification_state' =
         IF candidates = <<>> THEN notification_state
         ELSE LET ns1 == SetDefault(notification_state, DetectGuild)
              IN [ns1 EXCEPT ![DetectGuild] = record_all(@, candidates)]
    /\ pc' = "recorded"
    /\ ev' = Ev("recorded", DetectGuild, "")
    /\ UNCHANGED <<server_config, fileVars, faults, text_channels, fetchVars,
                   loopVars, clock, running, gi, channel, now, data,
                   candidates, ei, limiterVars, ghostVars>>

\* lines 426-462 applied again to the same response, with the same `now`
run_detect_again ==
    /\ pc = "recorded"
    /\ LET monitored == server_config[DetectGuild].devices
           guild_state == Get(notification_state, DetectGuild, EmptyDict)
       IN /\ candidates' = detect(data.devices, monitored, guild_state, now)
          /\ notification_state' =
               detect_state(notification_state, DetectGuild, data.devices,
                            monitored)
    /\ pc' = "redetected"
    /\ ev' = Ev("redetected", DetectGuild, "")
    /\ UNCHANGED <<server_config, fileVars, faults, text_channels, fetchVars,
                   loopVars, clock, running, gi, channel, now, data,
                   notifications_to_send, ei, limiterVars, ghostVars>>

NextRerun == run_detect \/ record_delivered \/ run_detect_again

SpecRerun == InitRerun /\ [][NextRerun]_vars

\* ------------------------------------------------------------------------
\* The prioritization of lines 464-472 on its own: every candidate list of
\* up to MaxCandidates events of distinct devices.
MaxCandidates == 15

\* the candidate list whose i-th event has the flag f[i]
CandidateList(f) ==
    [i \in DOMAIN f |-> [name |-> "d" \o ToString(i), is_offline |-> f[i]]]

InitPrio ==
    /\ server_config = Dict1(DetectGuild, Conf(AllDevices, 1, FALSE))
    /\ config_file = [valid |-> TRUE, doc |-> server_config]
    /\ notification_state = EmptyDict
    /\ state_file = [valid |-> TRUE, doc |-> notification_state]
    /\ text_channels = [g \in Guilds |-> <<1>>]
    /\ clock = StartTime
    /\ faults = 0
    /\ running = TRUE
    /\ pc = "prioritize"
    /\ gi = 1
    /\ channel = 1
    /\ now = StartTime
    /\ data = NoData
    /\ \E k \in 0..MaxCandidates :
          \E f \in [1..k -> BOOLEAN] : candidates = CandidateList(f)
    /\ notifications_to_send = <<>>
    /\ ei = 0
    /\ message_timestamps = <<>>
    /\ retry_after = 0
    /\ ev = Ev("init", "", "")
    /\ failed_prev = [g \in Guilds |-> {}]
    /\ retry_due = {}
    /\ retry_count = 0
    /\ fetch_log = <<>>
    /\ loop_seconds = DefaultSeconds
    /\ loop_started_at = (IF running THEN StartTime ELSE 0)
    /\ loop_tasks = B2I(running)

\* lines 464-472 applied to the candidate list in hand
run_prioritize ==
    /\ pc = "prioritize"
    /\ notifications_to_send' = prioritize(candidates)
    /\ ei' = 1
    /\ pc' = "deliver"
    /\ ev' = Ev("prioritized", DetectGuild, "")
    /\ UNCHANGED <<server_config, fileVars, faults, notification_state,
                   text_channels, fetchVars, loopVars, clock, running, gi, channel, now, data,
                   candidates, limiterVars, ghostVars>>

NextPrio == run_prioritize

SpecPrio == InitPrio /\ [][NextPrio]_vars

\* ------------------------------------------------------------------------
\* fetch_devices (lines 288-333) on its own, one pass of its while loop at a
\* time: every way the GETs of one call can end.
Bodies == SeqsUpTo(DeviceEntries(StartTime), MaxDevices)

Get_(o, body) == [op |-> "get", outcome |-> o, body |-> body]
Sleep_ == [op |-> "sleep", outcome |-> "", body |-> <<>>]

\* lines 308 and 312: the value a returning pass returns
returned_value(o, body) ==
    IF o = "200"
    THEN [kind |-> "devices", devices |-> body, status |-> 200]
    ELSE [kind |-> "auth_error", devices |-> <<>>,
          status |-> IF o = "401" THEN 401 ELSE 403]

\* line 333
ReturnedNone == [kind |-> "none", devices |-> <<>>, status |-> 0]

InitFetch ==
    /\ server_config = Dict1(DetectGuild, Conf(AllDevices, 1, FALSE))
    /\ config_file = [valid |-> TRUE, doc |-> server_config]
    /\ notification_state = EmptyDict
    /\ state_file = [valid |-> TRUE, doc |-> notification_state]
    /\ text_channels = [g \in Guilds |-> <<1>>]
    /\ clock = StartTime
    /\ faults = 0
    /\ running = TRUE
    /\ pc = "get"
    /\ gi = 1
    /\ channel = 1
    /\ now = StartTime
    /\ data = NoData
    /\ candidates = <<>>
    /\ notifications_to_send = <<>>
    /\ ei = 0
    /\ message_timestamps = <<>>
    /\ retry_after = 0
    /\ ev = Ev("init", "", "")
    /\ failed_prev = [g \in Guilds |-> {}]
    /\ retry_due = {}
    /\ retry_count = 0
    /\ fetch_log = <<>>
    /\ loop_seconds = DefaultSeconds
    /\ loop_started_at = (IF running THEN StartTime ELSE 0)
    /\ loop_tasks = B2I(running)

\* lines 292-331: one pass of the while loop, up to its return, its sleep
\* or its break
fetch_get ==
    /\ pc = "get"
    /\ IF retry_count > max_retries
       THEN \* the while condition fails: line 333
            /\ data' = ReturnedNone
            /\ pc' = "returned"
            /\ UNCHANGED <<retry_count, fetch_log>>
       ELSE \E o \in AttemptOutcomes :
            \E body \in IF o = "200" THEN Bodies ELSE {<<>>} :
               /\ fetch_log' = Append(fetch_log, Get_(o, body))
               /\ IF attempt_returns(o)
                  THEN /\ data' = returned_value(o, body)
                       /\ pc' = "returned"
                       /\ UNCHANGED retry_count
                  ELSE IF may_retry(retry_count)
                  THEN /\ retry_count' = retry_count + 1
                       /\ pc' = "sleep"
                       /\ UNCHANGED data
                  ELSE /\ data' = ReturnedNone
                       /\ pc' = "returned"
                       /\ UNCHANGED retry_count
    /\ ev' = Ev("get", DetectGuild, "")
    /\ UNCHANGED <<server_config, fileVars, faults, notification_state,
                   text_channels, loopVars, clock, running, gi, channel,
                   now, candidates, notifications_to_send, ei, limiterVars,
                   ghostVars>>

\* line 329: await asyncio.sleep(1)
fetch_sleep ==
    /\ pc = "sleep"
    /\ fetch_log' = Append(fetch_log, Sleep_)
    /\ clock' = clock + 1
    /\ pc' = "get"
    /\ ev' = Ev("sleep", DetectGuild, "")
    /\ UNCHANGED <<server_config, fileVars, faults, notification_state,
                   text_channels, loopVars, running, gi, channel, now, data,
                   candidates, notifications_to_send, ei, limiterVars,
                   ghostVars, retry_count>>

NextFetch == fetch_get \/ fetch_sleep

SpecFetch == InitFetch /\ [][NextFetch]_vars

\* ------------------------------------------------------------------------
\* The RateLimiter class (lines 45-104) on its own: acquire() and
\* update_from_response() called at any time on any limiter state within the
\* bounds.
MaxLimiterSeconds == 3    \* how long the clock runs while the limiter is used

\* send windows: k sends recorded `age` seconds ago, after `old` sends that
\* have left the 60-second window
LimiterWindows ==
    {[i \in 1..(old + k) |->
         IF i <= old THEN StartTime - (WindowSeconds + 1) ELSE StartTime - age] :
       old \in 0..1, k \in 0..(burst_limit + 1), age \in 0..2}

\* deadlines: none, one that has passed, one that lies ahead
LimiterDeadlines == {0, StartTime - 1, StartTime + 2}

HeaderValues == {HeaderAbsent, HeaderMalformed, 0, 1}

Headers ==
    [retry_after : HeaderValues, remaining : HeaderValues,
     reset_after : HeaderValues]

InitLimiter ==
    /\ server_config = Dict1(DetectGuild, Conf(AllDevices, 1, FALSE))
    /\ config_file = [valid |-> TRUE, doc |-> server_config]
    /\ notification_state = EmptyDict
    /\ state_file = [valid |-> TRUE, doc |-> notification_state]
    /\ text_channels = [g \in Guilds |-> <<1>>]
    /\ clock = StartTime
    /\ faults = 0
    /\ running = TRUE
    /\ pc = "limiter"
    /\ gi = 1
    /\ channel = 1
    /\ now = StartTime
    /\ data = NoData
    /\ candidates = <<>>
    /\ notifications_to_send = <<>>
    /\ ei = 0
    /\ message_timestamps \in LimiterWindows
    /\ retry_after \in LimiterDeadlines
    /\ ev = Ev("init", "", "")
    /\ failed_prev = [g \in Guilds |-> {}]
    /\ retry_due = {}
    /\ retry_count = 0
    /\ fetch_log = <<>>
    /\ loop_seconds = DefaultSeconds
    /\ loop_started_at = (IF running THEN StartTime ELSE 0)
    /\ loop_tasks = B2I(running)

\* a call of global_rate_limiter.acquire()
call_acquire ==
    /\ pc = "limiter"
    /\ LET r == acquire(message_timestamps, retry_after, clock)
       IN /\ message_timestamps' = r.ts
          /\ clock' = r.t
          /\ ev' = Ev(IF r.raised THEN "acquire_raised"
                      ELSE "acquire_returned", "", "")
    /\ UNCHANGED <<server_config, fileVars, faults, notification_state,
                   text_channels, fetchVars, loopVars, running, pc, tickVars,
                   retry_after, ghostVars>>

\* a call of global_rate_limiter.update_from_response(response); the
\* headers of the response are kept in ev.rest
call_update_from_response ==
    /\ pc = "limiter"
    /\ \E h \in Headers :
          LET r == update_from_response(retry_after, clock, h)
          IN /\ retry_after' = r.ra
             /\ ev' = EvRest(IF r.raised THEN "update_raised"
                             ELSE IF r.result THEN "update_true"
                             ELSE "update_false", "", r.error, h)
    /\ UNCHANGED <<server_config, fileVars, faults, notification_state,
                   text_channels, fetchVars, loopVars, clock, running, pc, tickVars,
                   message_timestamps, ghostVars>>

\* a second passes between two calls
limiter_tick ==
    /\ pc = "limiter"
    /\ clock < StartTime + MaxLimiterSeconds
    /\ clock' = clock + 1
    /\ ev' = Ev("advance", "", "")
    /\ UNCHANGED <<server_config, fileVars, faults, notification_state,
                   text_channels, fetchVars, loopVars, running, pc, tickVars,
                   limiterVars, ghostVars>>

NextLimiter == call_acquire \/ call_update_from_response \/ limiter_tick

SpecLimiter == InitLimiter /\ [][NextLimiter]_vars

\* ------------------------------------------------------------------------
\* Detection over responses in which a device may bear the name under which
\* the guild's dict keeps the time of its last error alert (lines 389-391
\* and 410-412 write it, line 449 reads the device's flag from the same
\* dict).
ErrorKeys == {AUTH_KEY, API_KEY}

KeyNames == {"a"} \cup ErrorKeys

KeyEntries(t) ==
    {[name |-> n, lastSeen |-> ls] :
        n \in KeyNames, ls \in {t, t - 600, BadLastSeen}}

\* the dicts a guild's state can be: a flag for device a, written by a
\* delivered event, and the times of the last alerts, written by the alerts
KeyStates ==
    {[k \in D |-> IF k \in ErrorKeys THEN StartTime - 10 ELSE flag] :
        D \in SUBSET KeyNames, flag \in {0, 1}}

InitKeys ==
    /\ server_config = Dict1(DetectGuild, Conf(AllDevices, 1, FALSE))
    /\ config_file = [valid |-> TRUE, doc |-> server_config]
    /\ notification_state \in
          {EmptyDict} \cup {Dict1(DetectGuild, gs) : gs \in KeyStates}
    /\ state_file = [valid |-> TRUE, doc |-> notification_state]
    /\ text_channels = [g \in Guilds |-> <<1>>]
    /\ clock = StartTime
    /\ faults = 0
    /\ running = TRUE
    /\ pc = "detect"
    /\ gi = 1
    /\ channel = 1
    /\ now = StartTime
    /\ \E ds \in SeqsUpTo(KeyEntries(StartTime), MaxDevices) :
          data = [kind |-> "devices", devices |-> ds, status |-> 200]
    /\ candidates = <<>>
    /\ notifications_to_send = <<>>
    /\ ei = 0
    /\ message_timestamps = <<>>
    /\ retry_after = 0
    /\ ev = Ev("init", "", "")
    /\ failed_prev = [g \in Guilds |-> {}]
    /\ retry_due = {}
    /\ retry_count = 0
    /\ fetch_log = <<>>
    /\ loop_seconds = DefaultSeconds
    /\ loop_started_at = StartTime
    /\ loop_tasks = 1

NextKeys == run_detect

SpecKeys == InitKeys /\ [][NextKeys]_vars

\* ------------------------------------------------------------------------
\* The loop left running over one guild and an inventory that stays as it
\* is: 10 devices that were last seen 10 minutes before each fetch and
\* MaxRecovered devices seen at the time of each fetch.  Every fetch
\* succeeds; the tick is scheduled again and again, and each of its awaits
\* returns.
MaxRecovered == 2

DeviceName(i) == "d" \o ToString(i)

DropInventory(t) ==
    [i \in 1..(MaxNotifications + MaxRecovered) |->
        [name |-> DeviceName(i),
         lastSeen |-> IF i <= MaxNotifications THEN t - 600 ELSE t]]

\* the states found at start-up: the 10 offline devices all notified or all
\* not, the other devices each notified or not
DropStates ==
    {[n \in {DeviceName(i) : i \in 1..(MaxNotifications + MaxRecovered)} |->
         IF n \in {DeviceName(i) : i \in 1..MaxNotifications}
         THEN off ELSE on[n]] :
       off \in {0, 1},
       on \in [{DeviceName(i) : i \in (MaxNotifications + 1)..
                                      (MaxNotifications + MaxRecovered)}
                 -> {0, 1}]}

InitDrop ==
    /\ server_config = Dict1(DetectGuild, Conf(AllDevices, 1, FALSE))
    /\ config_file = [valid |-> TRUE, doc |-> server_config]
    /\ notification_state \in {Dict1(DetectGuild, gs) : gs \in DropStates}
    /\ state_file = [valid |-> TRUE, doc |-> notification_state]
    /\ text_channels = InitChannels(server_config)
    /\ clock = StartTime
    /\ faults = 0
    /\ running = TRUE
    /\ pc = "idle"
    /\ gi = 0
    /\ channel = 0
    /\ now = 0
    /\ data = NoData
    /\ candidates = <<>>
    /\ notifications_to_send = <<>>
    /\ ei = 0
    /\ message_timestamps = <<>>
    /\ retry_after = 0
    /\ ev = Ev("init", "", "")
    /\ failed_prev = [g \in Guilds |-> {}]
    /\ retry_due = {}
    /\ retry_count = 0
    /\ fetch_log = <<>>
    /\ loop_seconds = DefaultSeconds
    /\ loop_started_at = StartTime
    /\ loop_tasks = 1

\* lines 384-472 when fetch_devices returns the inventory: detection and
\* prioritization, up to the delivery loop
fetch_inventory ==
    /\ pc = "fetch"
    /\ LET g == GuildOrder[gi]
           monitored == server_config[g].devices
           guild_state == Get(notification_state, g, EmptyDict)
           ds == DropInventory(now)
           found == detect(ds, monitored, guild_state, now)
       IN /\ candidates' = found
          /\ notifications_to_send' = prioritize(found)
          /\ ei' = 1
          /\ notification_state' = detect_state(notification_state, g, ds,
                                                monitored)
          /\ retry_due' = failed_prev[g] \cap RangeOf(found)
          /\ failed_prev' = [failed_prev EXCEPT ![g] = {}]
          /\ pc' = "deliver"
          /\ ev' = Ev("detected", g, "devices")
    /\ UNCHANGED <<state_file, faults, gi, limiterVars, clock, running,
                   channel, now, data, server_config, config_file,
                   text_channels, fetchVars, loopVars>>

\* the steps of the tick
TickStep ==
    \/ loop_tick
    \/ guild_begin
    \/ fetch_inventory
    \/ deliver_event
    \/ persist_state

NextDrop ==
    \/ TickStep
    \/ Advance

\* tasks.loop calls the body again after every interval while the loop
\* runs, and every await of the body returns
SpecDrop == InitDrop /\ [][NextDrop]_vars /\ WF_vars(TickStep)

\* ------------------------------------------------------------------------
\* Properties
\* ------------------------------------------------------------------------
\* the value stored under key k in guild g's notification state, -1 if none
Stored(ns, g, k) ==
    IF g \in DOMAIN ns /\ k \in DOMAIN ns[g] THEN ns[g][k] ELSE -1

\* the positions of the candidate list that hold an event of device n with
\* the given flag
EventsOf(n, flag) ==
    {i \in 1..Len(candidates) :
        candidates[i].name = n /\ candidates[i].is_offline = flag}

\* the positions of the response that hold an entry of device n whose
\* lastSeen parses and which is (or is not) more than 6 minutes old
EntriesOf(n, offline) ==
    {j \in 1..Len(data.devices) :
        /\ data.devices[j].name = n
        /\ data.devices[j].lastSeen # BadLastSeen
        /\ ((now - data.devices[j].lastSeen > 360) = offline)}

\* the device is named by the allow-list, or there is no allow-list
OnAllowList(n) ==
    LET monitored == server_config[DetectGuild].devices
    IN monitored.none \/ InSeq(n, monitored.items)

\* C1: for every fetched device that passes the allow-list and whose
\* lastSeen parses, detection emits exactly one went-offline event when the
\* device is offline and its stored flag is false or absent, exactly one
\* came-back-online event when it is not offline and its stored flag is
\* true, and no event otherwise.  Counted per device name: as many events of
\* a kind as the response has entries of that name calling for it.
C1_OneEventPerTransition ==
    pc = "detected" =>
      \A n \in Names :
        OnAllowList(n) =>
          LET flag == Stored(notification_state, DetectGuild, n)
          IN /\ Cardinality(EventsOf(n, TRUE)) =
                  IF flag \in {0, -1}
                  THEN Cardinality(EntriesOf(n, TRUE)) ELSE 0
             /\ Cardinality(EventsOf(n, FALSE)) =
                  IF flag = 1
                  THEN Cardinality(EntriesOf(n, FALSE)) ELSE 0

\* a response with device a 10 minutes old and not yet notified, and device
\* b just seen and notified: one went-offline and one came-back-online event
C1_Witness ==
    /\ pc = "detected"
    /\ data.devices = <<[name |-> "a", lastSeen |-> now - 600],
                        [name |-> "b", lastSeen |-> now]>>
    /\ Stored(notification_state, DetectGuild, "a") = 0
    /\ Stored(notification_state, DetectGuild, "b") = 1
    /\ candidates = <<[name |-> "a", is_offline |-> TRUE],
                      [name |-> "b", is_offline |-> FALSE]>>

\* positions of the candidate list by kind
OfflinePositions == {i \in 1..Len(candidates) : candidates[i].is_offline}
OnlinePositions == {i \in 1..Len(candidates) : ~candidates[i].is_offline}

\* max(0, 10 - number of went-offline events)
OnlineBudget ==
    IF 10 - Cardinality(OfflinePositions) > 0
    THEN 10 - Cardinality(OfflinePositions) ELSE 0

\* the first OnlineBudget came-back-online positions, in candidate order
FirstOnlinePositions ==
    {i \in OnlinePositions :
        Cardinality({j \in OnlinePositions : j <= i}) <= OnlineBudget}

\* the position of an event in the candidate list
PositionOf(e) == CHOOSE i \in 1..Len(candidates) : candidates[i] = e

\* C10: when the candidate list has more than 10 events the surviving list
\* holds every went-offline event and exactly the first
\* max(0, 10 - number of offline events) came-back-online events, each once
\* and each kind in candidate order; a list of 10 or fewer is unchanged.
C10_OfflineFirstWithinBudget ==
    ev.op = "prioritized" =>
      IF Len(candidates) > 10
      THEN LET kept == OfflinePositions \cup FirstOnlinePositions
           IN /\ RangeOf(notifications_to_send) =
                   {candidates[i] : i \in kept}
              /\ Len(notifications_to_send) = Cardinality(kept)
              /\ \A p, q \in 1..Len(notifications_to_send) :
                    (/\ p < q
                     /\ notifications_to_send[p].is_offline =
                          notifications_to_send[q].is_offline)
                    => PositionOf(notifications_to_send[p]) <
                         PositionOf(notifications_to_send[q])
      ELSE notifications_to_send = candidates

\* 15 candidates, 5 of them went-offline: 5 + 5 survive
C10_Witness ==
    /\ ev.op = "prioritized"
    /\ Len(candidates) = 15
    /\ Cardinality(OfflinePositions) = 5
    /\ Len(notifications_to_send) = 10
    /\ Cardinality({i \in 1..10 : notifications_to_send[i].is_offline}) = 5

\* the guild whose cycle is in hand
CurrentGuild == GuildOrder[gi]

\* the events of this cycle's list whose delivery has been attempted once
\* the pass at position ei is over
Attempted ==
    {notifications_to_send[i] :
        i \in 1..Min(ei, Len(notifications_to_send))}

\* C2: a device's entry in a guild's notification state changes only in the
\* step that follows a successful send of an event for that device to that
\* guild, and the value written is the event's flag; detection,
\* prioritization, a failed send and the handling of a failed fetch leave
\* every device entry as it was.
C2_EntryWrittenOnlyAfterSend ==
    [][\A g \in Guilds, d \in Names :
          Stored(notification_state', g, d) # Stored(notification_state, g, d)
          => /\ pc = "deliver"
             /\ ei <= Len(notifications_to_send)
             /\ ev'.op = "delivered"
             /\ g = CurrentGuild
             /\ d = notifications_to_send[ei].name
             /\ Stored(notification_state', g, d) =
                  B2I(notifications_to_send[ei].is_offline)]_vars

\* device a of guild g1 was found offline with no stored flag, the send of
\* its event failed, and it still has no stored flag
C2_Witness ==
    /\ ev.op = "acquire_raised"
    /\ ev.g = "g1"
    /\ ev.name = "a"
    /\ [name |-> "a", is_offline |-> TRUE] \in failed_prev["g1"]
    /\ "g1" \in DOMAIN notification_state
    /\ Stored(notification_state, "g1", "a") = -1

\* C3: when the send of one event of a batch fails, the failed event's
\* device entry is left as it was and, if the batch has later events, the
\* delivery loop goes on to the next one in the same cycle.
C3_LaterEventsStillAttempted ==
    [][(pc = "deliver" /\ ev'.op \in {"send_failed", "acquire_raised"})
       => /\ Stored(notification_state', CurrentGuild, ev'.name) =
               Stored(notification_state, CurrentGuild, ev'.name)
          /\ ei < Len(notifications_to_send)
             => /\ pc' = "deliver"
                /\ ei' = ei + 1
                /\ notifications_to_send' = notifications_to_send]_vars

\* C4: an event whose delivery failed in the guild's previous cycle and
\* that this cycle, after a successful fetch, produces again has had its
\* delivery attempted by the time the cycle's delivery loop is left.
C4_FailedEventRetriedNextCycle ==
    [][(pc = "deliver" /\ ev'.op \in {"deliver_done", "acquire_raised"})
       => retry_due \subseteq Attempted]_vars

\* C5: an exception raised while one guild is processed (the alert send of a
\* failed fetch, or acquire before a send) leaves the tick going: the next
\* guild in iteration order, configured and not stopped, is taken up.
C5_LaterTenantsStillProcessed ==
    [][(/\ pc \in {"fetch", "deliver"}
        /\ ev'.op \in {"alert_raised", "acquire_raised"}
        /\ gi < Len(GuildOrder)
        /\ GuildOrder[gi + 1] \in DOMAIN server_config
        /\ ~server_config[GuildOrder[gi + 1]].monitoring_stopped)
       => (pc' = "guild" /\ gi' = gi + 1)]_vars

\* what a step reports when something failed inside the tick
TickFailureOps ==
    {"alert_raised", "acquire_raised", "send_failed", "persist_failed",
     "alert_suppressed", "alert_sent"}

\* C6: after a failure inside a tick (a failed fetch, a failed send, a
\* failed write of the state file, an exception that ends the tick) and at
\* the end of every tick the loop is still running, and once the tick is
\* over the next tick can fire.
C6_FailureKeepsLoopRunning ==
    ev.op \in TickFailureOps \cup {"tick_done"}
    => /\ running
       /\ pc = "idle" => ENABLED loop_tick

\* a tick has fired after an earlier tick was ended by an exception
C6_Witness ==
    /\ ev.op = "tick"
    /\ running
    /\ failed_prev["g1"] # {}

\* what the handling of a failed fetch reports
AlertOps == {"alert_sent", "alert_suppressed", "alert_raised"}

\* the time of the last alert kept under key, 0 if there was none
LastAlert(g, key) ==
    IF Stored(notification_state, g, key) = -1 THEN 0
    ELSE Stored(notification_state, g, key)

\* C7: on an AuthError result the alert is sent iff more than 3600 seconds
\* have passed since the guild's last_auth_error, and last_auth_error
\* becomes the current time when the alert was sent and keeps its value
\* otherwise.
C7_AuthAlertIffWindowElapsed ==
    [][(pc = "fetch" /\ ev'.op \in AlertOps /\ ev'.name = AUTH_KEY)
       => /\ (ev'.op = "alert_sent")
               <=> (clock - LastAlert(CurrentGuild, AUTH_KEY) > 3600)
          /\ Stored(notification_state', CurrentGuild, AUTH_KEY) =
               IF ev'.op = "alert_sent" THEN clock
               ELSE Stored(notification_state, CurrentGuild, AUTH_KEY)]_vars

\* C8: on a transient fetch failure the alert is sent iff more than 3600
\* seconds have passed since the guild's last_api_error, which then becomes
\* the current time; the handling of a transient failure leaves
\* last_auth_error as it was and the handling of an AuthError leaves
\* last_api_error as it was.
C8_ApiAlertIffWindowElapsed ==
    [][(pc = "fetch" /\ ev'.op \in AlertOps)
       => /\ ev'.name = API_KEY
             => /\ (ev'.op = "alert_sent")
                     <=> (clock - LastAlert(CurrentGuild, API_KEY) > 3600)
                /\ ev'.op = "alert_sent"
                   => Stored(notification_state', CurrentGuild, API_KEY)
                        = clock
                /\ Stored(notification_state', CurrentGuild, AUTH_KEY) =
                     Stored(notification_state, CurrentGuild, AUTH_KEY)
          /\ ev'.name = AUTH_KEY
             => Stored(notification_state', CurrentGuild, API_KEY) =
                  Stored(notification_state, CurrentGuild, API_KEY)]_vars

\* the GETs of the call, in order
Gets == SelectSeq(fetch_log, LAMBDA e : e.op = "get")

\* the outcomes that are neither 200 nor 401 / 403
Retried(o) == o \notin {"200", "401", "403"}

C12_BoundedAttemptsOneSleepBetween ==
    /\ Len(Gets) <= max_retries + 1
    /\ \A i \in 1..Len(fetch_log) :
          fetch_log[i].op = (IF i % 2 = 1 THEN "get" ELSE "sleep")
    /\ pc = "returned"
       => fetch_log # <<>> /\ fetch_log[Len(fetch_log)].op = "get"
    /\ pc # "returned" => ENABLED NextFetch

\* three failed attempts with two sleeps in between, then None
C12_Witness ==
    /\ pc = "returned"
    /\ data.kind = "none"
    /\ Len(Gets) = 3
    /\ Len(fetch_log) = 5
    /\ clock = StartTime + 2

\* what a call of acquire() reports
AcquireOps == {"acquire_returned", "acquire_raised"}

\* what a call of update_from_response() reports
UpdateOps == {"update_true", "update_false", "update_raised"}

\* the recorded sends that are at most 60 seconds old
RecentSends ==
    SelectSeq(message_timestamps, LAMBDA x : x >= clock - 60)

C14_BurstThenComputedWait ==
    [][(ev'.op \in AcquireOps /\ retry_after <= clock)
       => LET n == Len(RecentSends)
              wait == IF n < 5 THEN 0
                      ELSE Max(0, 2 - (clock - RecentSends[n - 5 + 1]))
          IN /\ ev'.op = "acquire_returned"
             /\ clock' = clock + wait
             /\ message_timestamps' # <<>>
             /\ message_timestamps'[Len(message_timestamps')] = clock']_vars

C16_DeadlineFromHeaders ==
    [][(/\ ev'.op \in UpdateOps
        /\ HeaderMalformed \notin {ev'.rest.retry_after, ev'.rest.remaining,
                                   ev'.rest.reset_after})
       => LET h == ev'.rest
          IN /\ message_timestamps' = message_timestamps
             /\ IF Present(h.retry_after)
                THEN /\ ev'.op = "update_true"
                     /\ retry_after' = clock + h.retry_after
                ELSE IF h.remaining = 0 /\ Present(h.reset_after)
                THEN /\ ev'.op = "update_true"
                     /\ retry_after' = clock + h.reset_after
                ELSE /\ ev'.op = "update_false"
                     /\ retry_after' = retry_after]_vars

\* C17: no call of acquire() and no call of update_from_response() raises,
\* whatever the limiter's state and whatever the headers.
C17_LimiterNeverRaises ==
    [][ev'.op \notin {"acquire_raised", "update_raised"}]_vars


\* the events the commands leave behind
StartOps == {"start", "start_noop", "start_refused"}
StopOps == {"stop", "stop_noop"}
SetupOps == {"setup_start", "setup_noop", "setup_refused"}
IntervalOps == {"interval_refused", "interval_saved", "interval_restarted",
                "interval_restart_raised"}

\* C18: a stop command issued while a tick is in flight, suspended at the
\* fetch of a guild, does not abort that tick: after the command the tick
\* is still in flight at the same guild, with what it has collected.
C18_StopLetsTickFinish ==
    [][(ev'.op = "stop" /\ pc = "fetch")
          => (pc' = "fetch" /\ gi' = gi /\ UNCHANGED tickVars)]_vars

\* C19 as stated: every start command issued while the loop is Stopped
\* leaves it Running, every stop command issued while it is Running leaves
\* it Stopped, and a start command issued while it is Running leaves the
\* state, the interval, the phase and the tick in flight as they are, with
\* never more than one loop.
C19_StartAlwaysStarts ==
    [][/\ (ev'.op \in StartOps /\ ~running) => running'
       /\ (ev'.op \in StopOps /\ running) => ~running'
       /\ (ev'.op \in StartOps /\ running)
             => (running' /\ UNCHANGED <<loopVars, pc, gi>>)
       /\ loop_tasks' <= 1]_vars

\* C19: a start command issued while the loop is Stopped leaves it Running
\* exactly when its guild is configured (it is refused otherwise and the
\* loop stays Stopped); every stop command issued while it is Running
\* leaves it Stopped; a start or setup command issued while it is Running
\* leaves the state, the interval, the phase and the tick in flight as
\* they are; there is never more than one loop.
C19_TwoStateLoop ==
    [][/\ (ev'.op \in StartOps /\ ~running)
             => (running' <=> ev'.g \in DOMAIN server_config)
       /\ (ev'.op \in StopOps /\ running) => ~running'
       /\ (ev'.op \in StartOps \cup SetupOps /\ running)
             => (running' /\ UNCHANGED <<loopVars, pc, gi>>)
       /\ loop_tasks' <= 1]_vars

\* a start command has just been answered "already running" while a tick
\* of a loop with a changed interval was in flight
C19_Witness ==
    /\ ev.op = "start_noop"
    /\ running
    /\ pc = "fetch"
    /\ loop_tasks = 1
    /\ loop_seconds = 2 * MinSeconds

\* C20: an interval command with seconds >= 60, issued in a configured
\* guild while the loop is Running, leaves the loop Running with the new
\* interval and with its phase measured from the command.
C20_IntervalChangeRestarts ==
    [][(/\ ev'.op \in IntervalOps
        /\ running
        /\ ev'.g \in DOMAIN server_config
        /\ ev'.rest >= MinSeconds)
          => (/\ running'
              /\ loop_tasks' = 1
              /\ loop_seconds' = ev'.rest
              /\ loop_started_at' = clock')]_vars

\* C21: a write of the state file or of the config file that fails leaves
\* the file with the document it held before, still loadable.
C21_FailedWriteKeepsPrevious ==
    [][faults' > faults
          => /\ state_file' = state_file
             /\ config_file' = config_file]_vars

\* C22: the delivery loop of a guild's cycle, however its events fared, is
\* followed by the persist of the notification state, and a persist that
\* succeeds leaves the state file equal to the state in memory.
C22_StatePersistedAfterCycle ==
    [][/\ (pc = "deliver" /\ pc' # "deliver") => pc' = "persist"
       /\ ev'.op = "persisted"
             => state_file' = [valid |-> TRUE, doc |-> notification_state']]_vars

\* C23: a failed write of the notification state at the end of a guild's
\* cycle leaves the state in memory and the loop as they were and the tick
\* goes on to the next guild; a later persist that succeeds writes the
\* whole state that is in memory then.
C23_PersistFailureNonFatal ==
    [][/\ ev'.op = "persist_failed"
             => /\ notification_state' = notification_state
                /\ running' = running
                /\ pc' = "guild"
                /\ gi' = gi + 1
       /\ (ev'.op = "persisted" /\ faults > 0)
             => state_file' = [valid |-> TRUE, doc |-> notification_state']]_vars

\* the persist of the first guild has just failed after truncating the
\* file, and the tick is at the second guild with the state still in memory
C23_Witness ==
    /\ ev.op = "persist_failed"
    /\ ~state_file.valid
    /\ notification_state # EmptyDict
    /\ running
    /\ pc = "guild"
    /\ gi = 2

EntriesAged(n, age) ==
    {j \in 1..Len(data.devices) :
        /\ data.devices[j].name = n
        /\ data.devices[j].lastSeen # BadLastSeen
        /\ now - data.devices[j].lastSeen = age}

\* C25: a device last seen exactly 360 seconds ago is classified online and
\* one last seen 361 seconds ago offline.  In a response with distinct
\* device names, for a device on the allow-list: at 360 seconds there is no
\* went-offline event, and a came-back-online event iff the device is
\* notified; at 361 seconds there is no came-back-online event, and a
\* went-offline event iff the device is not notified.
C25_OfflineStrictlyAfterSixMinutes ==
    (pc = "detected" /\ DistinctNames(data.devices)) =>
      \A n \in Names :
        OnAllowList(n) =>
          LET notified == Stored(notification_state, DetectGuild, n) = 1
          IN /\ EntriesAged(n, 360) # {}
                  => /\ EventsOf(n, TRUE) = {}
                     /\ EventsOf(n, FALSE) # {} <=> notified
             /\ EntriesAged(n, 361) # {}
                  => /\ EventsOf(n, FALSE) = {}
                     /\ EventsOf(n, TRUE) # {} <=> ~notified

\* device a, not yet notified, was last seen exactly 360 seconds ago and
\* device b, not notified either, 361 seconds ago: detection has emitted a
\* went-offline event for b only
C25_Witness ==
    /\ pc = "detected"
    /\ data.devices = <<[name |-> "a", lastSeen |-> now - 360],
                        [name |-> "b", lastSeen |-> now - 361]>>
    /\ Stored(notification_state, DetectGuild, "a") # 1
    /\ Stored(notification_state, DetectGuild, "b") # 1
    /\ OnAllowList("a")
    /\ OnAllowList("b")
    /\ candidates = <<[name |-> "b", is_offline |-> TRUE]>>

\* C26: under an allow-list that is not None, the empty one included,
\* detection emits no event for a device the list does not name.
C26_UnlistedDeviceYieldsNoEvent ==
    pc = "detected" =>
      LET monitored == server_config[DetectGuild].devices
      IN ~monitored.none =>
           \A i \in 1..Len(candidates) :
              InSeq(candidates[i].name, monitored.items)

\* C27: a device name is in a guild's notification state after a step iff
\* it was there before the step or the step is a successful send of an
\* event for that device to that guild: entries present at start-up come
\* from the sends of earlier runs, no entry is ever removed, and observing
\* or filtering a device or failing to send its event creates none.
C27_EntryIffNotificationSent ==
    [][\A g \in Guilds, d \in Names :
          Stored(notification_state', g, d) # -1
          <=> \/ Stored(notification_state, g, d) # -1
              \/ (ev'.op = "delivered" /\ ev'.g = g /\ ev'.name = d)]_vars

\* a went-offline event for a device without an entry has been detected,
\* its delivery has failed, and the device still has no entry although its
\* guild's dict exists
C27_Witness ==
    /\ ev.op = "acquire_raised"
    /\ ev.g \in DOMAIN notification_state
    /\ ev.name \in Names
    /\ Stored(notification_state, ev.g, ev.name) = -1

\* the guild is not configured, its monitoring is stopped, or neither its
\* configured channel nor any text channel of the guild can be found
Skippable(g) ==
    \/ g \notin DOMAIN server_config
    \/ server_config[g].monitoring_stopped
    \/ /\ text_channels[g] = <<>>
       /\ \/ server_config[g].notification_channel_id = 0
          \/ ~InSeq(server_config[g].notification_channel_id, text_channels[g])

\* C28: when the tick comes to a guild that is unconfigured, stopped or
\* without a resolvable channel, it goes on to the next guild: no fetch is
\* started, nothing is sent (the limiter and the clock are as before) and
\* the notification state and its file are unchanged.
C28_SkippedTenantUntouched ==
    [][(pc = "guild" /\ gi <= Len(GuildOrder) /\ Skippable(GuildOrder[gi]))
          => /\ pc' = "guild"
             /\ gi' = gi + 1
             /\ ev'.op \in {"skip_unconfigured", "skip_no_channel",
                            "skip_stopped"}
             /\ notification_state' = notification_state
             /\ state_file' = state_file
             /\ UNCHANGED <<limiterVars, clock>>]_vars

\* a guild that is configured and not stopped, with entries in its
\* notification state, has just been skipped for want of a channel
C28_Witness ==
    /\ ev.op = "skip_no_channel"
    /\ ev.g \in DOMAIN server_config
    /\ ~server_config[ev.g].monitoring_stopped
    /\ ev.g \in DOMAIN notification_state
    /\ pc = "guild"

\* the kind of result the fetch whose return the event reports has yielded
FetchKind(e) ==
    IF e.op \in AlertOps
    THEN IF e.name = AUTH_KEY THEN "auth_error" ELSE "none"
    ELSE e.name

\* C29: when a guild's fetch returns an authentication error or None, the
\* step that handles it is an alert step that ends the guild's cycle: no
\* event list is built, the delivery loop is not entered, no device entry
\* of any guild changes, and of the error timestamps only the one of that
\* guild and that kind of error may change.
C29_FailedFetchSkipsCycle ==
    [][(/\ pc = "fetch"
        /\ ev'.op \in AlertOps \cup {"detected"}
        /\ FetchKind(ev') \in {"auth_error", "none"})
          => /\ ev'.op \in AlertOps
             /\ pc' \in {"guild", "idle"}
             /\ candidates' = <<>>
             /\ notifications_to_send' = <<>>
             /\ \A g \in Guilds, d \in Names :
                   Stored(notification_state', g, d) =
                     Stored(notification_state, g, d)
             /\ \A g \in Guilds, k \in {AUTH_KEY, API_KEY} :
                   Stored(notification_state', g, k) #
                     Stored(notification_state, g, k)
                   => (g = CurrentGuild /\ k = ev'.name)]_vars

\* the fetch of a guild with device entries has returned an authentication
\* error within the hour of the last alert, and the tick has gone on
C29_Witness ==
    /\ ev.op = "alert_suppressed"
    /\ ev.name = AUTH_KEY
    /\ Stored(notification_state, ev.g, "a") # -1
    /\ Stored(notification_state, ev.g, "b") # -1
    /\ candidates = <<>>
    /\ pc = "guild"

\* C30: in every state reached under any interleaving of the tick with the
\* start, stop, setup and interval commands and on_ready, the loop has at
\* most one live task, a tick is in flight only in that task, and the tick
\* in flight is at one place of one guild's cycle, delivering at most one
\* event of that guild's list.
C30_OneTickOneTenantOneSend ==
    /\ loop_tasks <= 1
    /\ loop_tasks = B2I(running)
    /\ pc # "idle" => (running /\ gi \in 1..(Len(GuildOrder) + 1))
    /\ pc \in {"fetch", "deliver", "persist"} => gi \in 1..Len(GuildOrder)
    /\ pc = "deliver" => ei \in 1..(Len(notifications_to_send) + 1)
    /\ pc = "idle" => (gi = 0 /\ notifications_to_send = <<>> /\ ei = 0)

\* a setup command has been answered "already running" while the tick was
\* suspended at the fetch of a guild, after the interval had been changed
C30_Witness ==
    /\ ev.op = "setup_noop"
    /\ pc = "fetch"
    /\ gi = 1
    /\ loop_tasks = 1
    /\ loop_seconds # DefaultSeconds

C32_FetchedOrderKept ==
    ev.op = "prioritized" =>
      \A p, q \in 1..Len(notifications_to_send) :
         p < q => PositionOf(notifications_to_send[p]) <
                    PositionOf(notifications_to_send[q])

\* C32: the list handed to the delivery loop keeps the fetched order of
\* every two surviving events when the candidate list has 10 events or
\* fewer, and of every two surviving events of the same kind when it has
\* more; of two surviving events of different kinds of a longer list the
\* went-offline event comes first, wherever its device was fetched.
C32_OrderKeptWithinKind ==
    ev.op = "prioritized" =>
      \A p, q \in 1..Len(notifications_to_send) :
         p < q =>
           LET first == notifications_to_send[p]
               second == notifications_to_send[q]
           IN IF Len(candidates) <= MaxNotifications
                 \/ first.is_offline = second.is_offline
              THEN PositionOf(first) < PositionOf(second)
              ELSE first.is_offline /\ ~second.is_offline

\* a came-back-online event fetched first is sent after a went-offline event
C32_Witness ==
    /\ ev.op = "prioritized"
    /\ Len(candidates) > MaxNotifications
    /\ ~candidates[1].is_offline
    /\ \E p, q \in 1..Len(notifications_to_send) :
          /\ p < q
          /\ notifications_to_send[q] = candidates[1]
          /\ notifications_to_send[p].is_offline
          /\ PositionOf(notifications_to_send[p]) > 1

\* the positions of the response whose lastSeen does not parse
Unparsed == {j \in 1..Len(data.devices) :
               data.devices[j].lastSeen = BadLastSeen}

\* the entry at position j parses and calls for an event: offline and not
\* notified, or not offline and notified
CallsForEvent(j) ==
    LET device == data.devices[j]
        flag == Stored(notification_state, DetectGuild, device.name)
        offline == now - device.lastSeen > OfflineThresholdSeconds
    IN /\ j \notin Unparsed
       /\ (offline /\ flag \in {0, -1}) \/ (~offline /\ flag = 1)

\* C33: when a response holds entries whose lastSeen does not parse, the
\* detection step changes no stored value of any device, emits no event for
\* a device all of whose entries fail to parse, leaves the notification
\* state as it is when no entry of the response parses, and still emits,
\* for every device on the allow-list, one event per entry of it that
\* parses and calls for one.
C33_UnparsedEntrySkipped ==
    [][(pc = "detect" /\ pc' = "detected" /\ Unparsed # {}) =>
         /\ \A n \in Names \cup Keys :
               Stored(notification_state', DetectGuild, n) =
                 Stored(notification_state, DetectGuild, n)
         /\ Unparsed = 1..Len(data.devices)
               => notification_state' = notification_state
         /\ \A n \in Names :
               LET entries == {j \in 1..Len(data.devices) :
                                 data.devices[j].name = n}
                   events == {i \in 1..Len(candidates') :
                                candidates'[i].name = n}
               IN /\ entries \subseteq Unparsed => events = {}
                  /\ OnAllowList(n) =>
                       Cardinality(events) =
                         Cardinality({j \in entries : CallsForEvent(j)})]_vars

\* device a, not notified, has a lastSeen that does not parse and device b,
\* not notified either, was last seen 10 minutes ago: the one event is b's
C33_Witness ==
    /\ pc = "detected"
    /\ data.devices = <<[name |-> "a", lastSeen |-> BadLastSeen],
                        [name |-> "b", lastSeen |-> now - 600]>>
    /\ OnAllowList("a")
    /\ OnAllowList("b")
    /\ Stored(notification_state, DetectGuild, "a") = 0
    /\ Stored(notification_state, DetectGuild, "b") = -1
    /\ candidates = <<[name |-> "b", is_offline |-> TRUE]>>

\* C34: every configured guild's stored poll interval is at least 60
\* seconds, and the loop never runs at an interval below 60 seconds.
C34_IntervalAtLeastMinimum ==
    /\ \A g \in DOMAIN server_config :
          server_config[g].poll_interval >= MinSeconds
    /\ running => loop_seconds >= MinSeconds

C36_OneTimestampPerSend ==
    [][(pc = "deliver" /\ ei <= Len(notifications_to_send)) =>
          Len(message_timestamps') = Len(message_timestamps) + 1]_vars

\* C37: a stop command that finds the loop running leaves it running when
\* a configured guild other than the one of the command is not marked as
\* stopped.
C37_StopLeavesOthersPolled ==
    [][(/\ ev'.op \in StopOps
        /\ running
        /\ \E h \in DOMAIN server_config' :
              /\ h # ev'.g
              /\ ~server_config'[h].monitoring_stopped)
          => running']_vars

\* C38: detection emits a came-back-online event only for a device whose
\* stored flag is the boolean true that a notification for that device
\* wrote, whatever the device is called, and leaves the times of the last
\* alerts as they are.
C38_FlagsApartFromTimestamps ==
    pc = "detected" =>
      /\ \A i \in 1..Len(candidates) :
            ~candidates[i].is_offline =>
               Stored(notification_state, DetectGuild, candidates[i].name) = 1
      /\ \A i \in 1..Len(candidates) :
            candidates[i].is_offline =>
               Stored(notification_state, DetectGuild, candidates[i].name)
                 \in {0, -1}

\* C39: a setup command whose test request returned an authentication
\* error or None leaves the configuration as it was and does not start the
\* loop.
C39_SetupStoresOnlyValidatedKey ==
    [][(ev'.op \in SetupOps /\ ev'.name \in {"auth_error", "none"})
          => /\ server_config' = server_config
             /\ running' = running]_vars

\* C40: a came-back-online event that prioritization dropped (it is among
\* the candidates of the cycle in hand and not among the events to send) is
\* delivered in a later cycle, when the loop keeps running over an
\* inventory that stays as it is and every fetch succeeds.
C40_DroppedEventDelivered ==
    \A n \in {DeviceName(i) : i \in (MaxNotifications + 1)..
                                    (MaxNotifications + MaxRecovered)} :
       (/\ pc = "deliver"
        /\ [name |-> n, is_offline |-> FALSE] \in RangeOf(candidates)
        /\ \A i \in 1..Len(notifications_to_send) :
              notifications_to_send[i].name # n)
         ~> (ev.op = "delivered" /\ ev.name = n)

====
